---- MODULE Spec2Model ----
(***************************************************************************)
(* Model of backend/routes/Registration.mjs: the three route handlers      *)
(*   POST /api/register                                                    *)
(*   GET  /api/register/usercheck/:username                                *)
(*   GET  /api/register/emailcheck/:email                                  *)
(* running as async tasks on one event loop over a shared user store.      *)
(* A handler runs atomically from one await to the next; the store         *)
(* operation it awaits and the code that follows it up to the next await   *)
(* form one step.                                                          *)
(***************************************************************************)
EXTENDS Integers, Sequences, FiniteSets, TLC

\* Number of requests the server receives in a run.
NumReq == 2

Reqs == 1..NumReq

\* ------------------------------------------------------------------ inputs

\* An email address is a sequence of characters.
EmailBob == <<"b", "@", "x", ".", "c">>
EmailAmy == <<"a", "@", "x", ".", "c">>
EmailNoAt == <<"b", "o", "b">>
EmailNone == <<>>

Usernames == {"", "al", "alice", "bobby"}
Passwords == {"", "pw", "secret"}
Emails == {EmailNone, EmailNoAt, EmailBob, EmailAmy}

\* The absent value (null / undefined) and a present value v.
Null == <<>>
Some(v) == <<v>>

\* A user the client's session may already hold when its request arrives.
PriorUser == [username |-> "prior", password |-> "h$prior", email |-> EmailNoAt]
Sessions == {Null, Some(PriorUser)}

\* ------------------------------------------------------------- validation

MinLength == 3

\* isEmail: one "@", a non-empty local part, a domain with an inner ".".
IsEmail(e) ==
    \E i \in 1..Len(e) :
        /\ e[i] = "@"
        /\ i > 1
        /\ \A j \in 1..Len(e) : e[j] = "@" => j = i
        /\ \E k \in (i + 2)..(Len(e) - 1) : e[k] = "."

UsernameErrors(b) ==
    (IF b.username = "" THEN {"Username is required"} ELSE {})
    \cup (IF Len(b.username) < MinLength
          THEN {"Username must be at least 3 characters long"} ELSE {})

PasswordErrors(b) ==
    (IF b.password = "" THEN {"Password is required"} ELSE {})
    \cup (IF Len(b.password) < MinLength
          THEN {"Password must be at least 3 characters long"} ELSE {})

EmailErrors(b) ==
    (IF b.email = EmailNone THEN {"Email is required"} ELSE {})
    \cup (IF ~IsEmail(b.email) THEN {"Must be a valid email address"} ELSE {})

\* validationResult(request): the messages of the rules the body breaks.
ValidationResult(b) == UsernameErrors(b) \cup PasswordErrors(b) \cup EmailErrors(b)

\* Request bodies: the valid ones, a valid one with one field replaced by each
\* of its invalid values, and one with every field invalid.
AllBodies == [username : Usernames, password : Passwords, email : Emails]
ValidBodies == {b \in AllBodies : ValidationResult(b) = {}}
ReferenceBody == [username |-> "alice", password |-> "secret", email |-> EmailAmy]
Bodies ==
    ValidBodies
    \cup {[ReferenceBody EXCEPT !.username = u] : u \in Usernames}
    \cup {[ReferenceBody EXCEPT !.password = p] : p \in Passwords}
    \cup {[ReferenceBody EXCEPT !.email = e] : e \in Emails}
    \cup {[username |-> "", password |-> "pw", email |-> EmailNoAt]}

\* Path parameters of the availability checks (a path segment is not empty).
UsernameParams == Usernames \ {""}
EmailParams == Emails \ {EmailNone}

\* ---------------------------------------------------------- collaborators

\* hashPassword(plaintext): the stored representation of a password.
hashPassword(p) == "h$" \o p

VARIABLES
    store,      \* the user collection: the documents in insertion order
    pc,         \* per request: where its handler is suspended
    request,    \* per request: route, body and path parameters
    session,    \* per request: request.session.user
    response,   \* per request: the response object
    userExists, \* per request: result of the username lookup
    emailExists,\* per request: result of the email lookup
    newUser,    \* per request: the constructed user document
    calls       \* per request: collaborator calls made, with their outcome

vars == <<store, pc, request, session, response, userExists, emailExists,
          newUser, calls>>

NoRequest == [route |-> "none", username |-> "", password |-> "", email |-> EmailNone]
NoResponse == [status |-> 200, sent |-> FALSE, message |-> "", available |-> "absent",
               user |-> Null]

Init ==
    /\ store = <<>>
    /\ pc = [r \in Reqs |-> "idle"]
    /\ request = [r \in Reqs |-> NoRequest]
    /\ session \in [Reqs -> Sessions]
    /\ response = [r \in Reqs |-> NoResponse]
    /\ userExists = [r \in Reqs |-> Null]
    /\ emailExists = [r \in Reqs |-> Null]
    /\ newUser = [r \in Reqs |-> Null]
    /\ calls = [r \in Reqs |-> {}]

\* ------------------------------------------------------------------ store

Min(S) == CHOOSE x \in S : \A y \in S : x <= y

\* user.findOne({ username }): the first document with that username, or null.
FindOneByUsername(u) ==
    LET hits == {i \in 1..Len(store) : store[i].username = u}
    IN  IF hits = {} THEN Null ELSE Some(store[Min(hits)])

\* user.findOne({ email }): the first document with that email, or null.
FindOneByEmail(e) ==
    LET hits == {i \in 1..Len(store) : store[i].email = e}
    IN  IF hits = {} THEN Null ELSE Some(store[Min(hits)])

\* newUser.save(): the document is appended to the collection.
SaveDoc(doc) == Append(store, doc)

\* --------------------------------------------------------- handler pieces

\* Variant: the email rules are left out of the validation chain.
ValidationFailedNoEmail(b) == UsernameErrors(b) \cup PasswordErrors(b) # {}

\* if (!result.isEmpty())
ValidationFailed(b) == ValidationResult(b) # {}

\* Variant: the username check is skipped.
UsernameCheckSkipped(found) == FALSE

\* Variant: the username check is inverted, if (!userExists).
UsernameCheckInverted(found) == found = Null

\* if (userExists)
UsernameTaken(found) == found # Null

\* Variant: the email check is skipped.
EmailCheckSkipped(found) == FALSE

\* if (emailExists)
EmailRegistered(found) == found # Null

\* Variant: the document is constructed with the submitted password.
NewUserDocPlain(b) ==
    [username |-> b.username, password |-> b.password, email |-> b.email]

\* password = hashPassword(password); new user({ username, password, email })
NewUserDoc(b) ==
    [username |-> b.username, password |-> hashPassword(b.password), email |-> b.email]

\* response.status(400): the status is set, nothing is sent.
ValidationResponse == [NoResponse EXCEPT !.status = 400]

\* response.status(s).json({ message })
MessageResponse(s, m) == [NoResponse EXCEPT !.status = s, !.sent = TRUE, !.message = m]

\* response.status(201).json({ message: "Registration successful", user: newUser })
CreatedResponse(doc) ==
    [NoResponse EXCEPT !.status = 201, !.sent = TRUE,
                       !.message = "Registration successful", !.user = Some(doc)]

\* Variant: the negation is dropped, { available: existing }.
AvailableNotNegated(existing) == existing # Null

\* { available: !existing }
Available(existing) == existing = Null

\* response.json({ available }): the status stays at its default, 200.
AvailableResponse(existing) ==
    [NoResponse EXCEPT !.sent = TRUE,
                       !.available = IF Available(existing) THEN "true" ELSE "false"]

\* Variant: the catch blocks set the status and send nothing.
CatchResponseUnsent(route) == [NoResponse EXCEPT !.status = 500]

\* The catch blocks: the 500 response of each route.
CatchResponse(route) ==
    CASE route = "register" -> MessageResponse(500, "Error creating user account")
      [] route = "usercheck" ->
            MessageResponse(500, "Error checking when searching username check")
      [] OTHER -> MessageResponse(500, "Error checking email availability")

Body(r) == [username |-> request[r].username, password |-> request[r].password,
            email |-> request[r].email]

\* Requests are numbered in their order of arrival.
Arrives(r) == pc[r] = "idle" /\ \A q \in Reqs : q < r => pc[q] # "idle"

Called(r, call, outcome) == [calls EXCEPT ![r] = @ \cup {<<call, outcome>>}]

\* ---------------------------------------------------- POST /api/register

\* The request arrives; the handler validates the body and, when it is valid,
\* issues the username lookup and suspends.
PostRegister(r) ==
    /\ Arrives(r)
    /\ \E b \in Bodies :
        /\ request' = [request EXCEPT ![r] =
                          [route |-> "register", username |-> b.username,
                           password |-> b.password, email |-> b.email]]
        /\ IF ValidationFailed(b)
           THEN /\ response' = [response EXCEPT ![r] = ValidationResponse]
                /\ pc' = [pc EXCEPT ![r] = "done"]
           ELSE /\ pc' = [pc EXCEPT ![r] = "findUser"]
                /\ UNCHANGED response
    /\ UNCHANGED <<store, session, userExists, emailExists, newUser, calls>>

\* The username lookup completes; the handler rejects a taken username or
\* issues the email lookup and suspends.
RegUsernameLookup(r) ==
    /\ pc[r] = "findUser"
    /\ LET found == FindOneByUsername(request[r].username) IN
        /\ userExists' = [userExists EXCEPT ![r] = found]
        /\ calls' = Called(r, "findUser", "ok")
        /\ IF UsernameTaken(found)
           THEN /\ response' = [response EXCEPT ![r] =
                                   MessageResponse(400, "Username taken")]
                /\ pc' = [pc EXCEPT ![r] = "done"]
           ELSE /\ pc' = [pc EXCEPT ![r] = "findEmail"]
                /\ UNCHANGED response
    /\ UNCHANGED <<store, request, session, emailExists, newUser>>

\* The email lookup completes; the handler rejects a registered email or
\* hashes the password, constructs the document, issues the save and suspends.
RegEmailLookup(r) ==
    /\ pc[r] = "findEmail"
    /\ LET found == FindOneByEmail(request[r].email) IN
        /\ emailExists' = [emailExists EXCEPT ![r] = found]
        /\ IF EmailRegistered(found)
           THEN /\ response' = [response EXCEPT ![r] =
                                   MessageResponse(400, "Email previously registered")]
                /\ pc' = [pc EXCEPT ![r] = "done"]
                /\ calls' = Called(r, "findEmail", "ok")
                /\ UNCHANGED newUser
           ELSE /\ newUser' = [newUser EXCEPT ![r] = Some(NewUserDoc(Body(r)))]
                /\ calls' = [calls EXCEPT ![r] =
                                @ \cup {<<"findEmail", "ok">>, <<"hashPassword", "ok">>}]
                /\ pc' = [pc EXCEPT ![r] = "save"]
                /\ UNCHANGED response
    /\ UNCHANGED <<store, request, session, userExists>>

\* The email lookup finds nothing and hashPassword throws: the catch block.
RegHashThrows(r) ==
    /\ pc[r] = "findEmail"
    /\ ~EmailRegistered(FindOneByEmail(request[r].email))
    /\ emailExists' = [emailExists EXCEPT ![r] = Null]
    /\ calls' = [calls EXCEPT ![r] =
                    @ \cup {<<"findEmail", "ok">>, <<"hashPassword", "throw">>}]
    /\ response' = [response EXCEPT ![r] = CatchResponse("register")]
    /\ pc' = [pc EXCEPT ![r] = "done"]
    /\ UNCHANGED <<store, request, session, userExists, newUser>>

\* The save completes; the handler writes the session and responds 201.
RegSave(r) ==
    /\ pc[r] = "save"
    /\ store' = SaveDoc(newUser[r][1])
    /\ calls' = Called(r, "save", "ok")
    /\ session' = [session EXCEPT ![r] = newUser[r]]
    /\ response' = [response EXCEPT ![r] = CreatedResponse(newUser[r][1])]
    /\ pc' = [pc EXCEPT ![r] = "done"]
    /\ UNCHANGED <<request, userExists, emailExists, newUser>>

\* Variant: the session is written before the save is awaited, so a save that
\* throws leaves the session written.
RegStoreThrowsSessionFirst(r) ==
    /\ pc[r] \in {"findUser", "findEmail", "save"}
    /\ calls' = [calls EXCEPT ![r] = @ \cup {<<pc[r], "throw">>}]
    /\ session' = [session EXCEPT ![r] = IF pc[r] = "save" THEN newUser[r] ELSE @]
    /\ response' = [response EXCEPT ![r] =
                        MessageResponse(500, "Error creating user account")]
    /\ pc' = [pc EXCEPT ![r] = "done"]
    /\ UNCHANGED <<store, request, userExists, emailExists, newUser>>

\* The awaited store call (a lookup or the save) throws: the catch block.
RegStoreThrows(r) ==
    /\ pc[r] \in {"findUser", "findEmail", "save"}
    /\ calls' = Called(r, pc[r], "throw")
    /\ response' = [response EXCEPT ![r] = CatchResponse("register")]
    /\ pc' = [pc EXCEPT ![r] = "done"]
    /\ UNCHANGED <<store, request, session, userExists, emailExists, newUser>>

\* ------------------------------------------------- availability checks

\* GET /api/register/usercheck/:username arrives and issues its lookup.
GetUserCheck(r) ==
    /\ Arrives(r)
    /\ \E u \in UsernameParams :
        request' = [request EXCEPT ![r] = [NoRequest EXCEPT !.route = "usercheck",
                                                               !.username = u]]
    /\ pc' = [pc EXCEPT ![r] = "find"]
    /\ UNCHANGED <<store, session, response, userExists, emailExists, newUser, calls>>

\* GET /api/register/emailcheck/:email arrives and issues its lookup.
GetEmailCheck(r) ==
    /\ Arrives(r)
    /\ \E e \in EmailParams :
        request' = [request EXCEPT ![r] = [NoRequest EXCEPT !.route = "emailcheck",
                                                               !.email = e]]
    /\ pc' = [pc EXCEPT ![r] = "find"]
    /\ UNCHANGED <<store, session, response, userExists, emailExists, newUser, calls>>

\* The usercheck lookup completes and the handler responds.
UserCheckLookup(r) ==
    /\ pc[r] = "find" /\ request[r].route = "usercheck"
    /\ LET existingUser == FindOneByUsername(request[r].username) IN
        /\ userExists' = [userExists EXCEPT ![r] = existingUser]
        /\ response' = [response EXCEPT ![r] = AvailableResponse(existingUser)]
    /\ calls' = Called(r, "findUser", "ok")
    /\ pc' = [pc EXCEPT ![r] = "done"]
    /\ UNCHANGED <<store, request, session, emailExists, newUser>>

\* The emailcheck lookup completes and the handler responds.
EmailCheckLookup(r) ==
    /\ pc[r] = "find" /\ request[r].route = "emailcheck"
    /\ LET existingEmail == FindOneByEmail(request[r].email) IN
        /\ emailExists' = [emailExists EXCEPT ![r] = existingEmail]
        /\ response' = [response EXCEPT ![r] = AvailableResponse(existingEmail)]
    /\ calls' = Called(r, "findEmail", "ok")
    /\ pc' = [pc EXCEPT ![r] = "done"]
    /\ UNCHANGED <<store, request, session, userExists, newUser>>

\* The lookup of an availability check throws: the catch block.
CheckStoreThrows(r) ==
    /\ pc[r] = "find"
    /\ calls' = Called(r, IF request[r].route = "usercheck" THEN "findUser"
                          ELSE "findEmail", "throw")
    /\ response' = [response EXCEPT ![r] = CatchResponse(request[r].route)]
    /\ pc' = [pc EXCEPT ![r] = "done"]
    /\ UNCHANGED <<store, request, session, userExists, emailExists, newUser>>

Next ==
    \E r \in Reqs :
        \/ PostRegister(r)
        \/ RegUsernameLookup(r)
        \/ RegEmailLookup(r)
        \/ RegHashThrows(r)
        \/ RegSave(r)
        \/ RegStoreThrows(r)
        \/ GetUserCheck(r)
        \/ GetEmailCheck(r)
        \/ UserCheckLookup(r)
        \/ EmailCheckLookup(r)
        \/ CheckStoreThrows(r)

Spec == Init /\ [][Next]_vars

\* ------------------------------------------------------------- properties

IsReg(r) == request[r].route = "register"
IsCheck(r) == request[r].route \in {"usercheck", "emailcheck"}
Valid(r) == ValidationResult(Body(r)) = {}
ThrewIn(c) == \E e \in c : e[2] = "throw"
HasUsername(u) == \E i \in 1..Len(store) : store[i].username = u
HasEmail(e) == \E i \in 1..Len(store) : store[i].email = e
\* The document a registration request is to persist.
HashedDoc(r) == [username |-> request[r].username,
                 password |-> hashPassword(request[r].password),
                 email |-> request[r].email]

\* C1: no two persisted user records share a username, and no two share an
\* email, whatever the interleaving of the registration handlers.
C1_UniqueUsernamesAndEmails ==
    \A i, j \in 1..Len(store) :
        i # j => /\ store[i].username # store[j].username
                 /\ store[i].email # store[j].email

\* C2: a registration whose body fails validation ends at once having made no
\* collaborator call (no lookup, no hashing, no save); the store and the
\* session are the same after it as before it.
C2_InvalidTouchesNothing ==
    [][\A r \in Reqs :
          (/\ pc[r] = "idle"
           /\ request'[r].route = "register"
           /\ ValidationResult([username |-> request'[r].username,
                                password |-> request'[r].password,
                                email |-> request'[r].email]) # {})
          => /\ pc'[r] = "done"
             /\ calls'[r] = {}
             /\ newUser'[r] = Null
             /\ store' = store
             /\ session' = session]_vars

C2_Witness ==
    \E r \in Reqs : /\ IsReg(r) /\ ~Valid(r) /\ pc[r] = "done"
                    /\ session[r] # Null /\ Len(store) > 0

\* C3: a registration whose body fails validation does not finish without a
\* sent response, and that response has status 400.
C3_InvalidGets400 ==
    \A r \in Reqs :
        (IsReg(r) /\ ~Valid(r) /\ pc[r] = "done")
        => (response[r].sent /\ response[r].status = 400)

\* C4: a valid registration whose username lookup finds a record responds 400
\* "Username taken" whatever its other fields are, and makes no email lookup,
\* no save and no session write: the store is unchanged by it.
C4_UsernameTaken ==
    [][\A r \in Reqs :
          (/\ IsReg(r) /\ pc[r] = "findUser"
           /\ <<"findUser", "ok">> \in calls'[r]
           /\ HasUsername(request[r].username))
          => /\ userExists'[r] # Null
             /\ response'[r] = MessageResponse(400, "Username taken")
             /\ pc'[r] = "done"
             /\ calls'[r] = {<<"findUser", "ok">>}
             /\ newUser'[r] = Null
             /\ store' = store
             /\ session' = session]_vars

C4_Witness ==
    \E r \in Reqs : /\ IsReg(r) /\ pc[r] = "done"
                    /\ response[r].message = "Username taken"
                    /\ HasEmail(request[r].email)

\* C5: a valid registration whose username lookup finds nothing and whose
\* email lookup finds a record responds 400 "Email previously registered" and
\* makes no save and no session write: the store is unchanged by it.
C5_EmailRegistered ==
    [][\A r \in Reqs :
          (/\ IsReg(r) /\ pc[r] = "findEmail"
           /\ <<"findEmail", "ok">> \in calls'[r]
           /\ HasEmail(request[r].email))
          => /\ userExists[r] = Null
             /\ emailExists'[r] # Null
             /\ response'[r] = MessageResponse(400, "Email previously registered")
             /\ pc'[r] = "done"
             /\ calls'[r] = {<<"findUser", "ok">>, <<"findEmail", "ok">>}
             /\ newUser'[r] = Null
             /\ store' = store
             /\ session' = session]_vars

C5_Witness ==
    \E r \in Reqs : /\ IsReg(r) /\ pc[r] = "done"
                    /\ response[r].message = "Email previously registered"
                    /\ ~HasUsername(request[r].username)

AllOk == {<<"findUser", "ok">>, <<"findEmail", "ok">>, <<"hashPassword", "ok">>,
          <<"save", "ok">>}

\* C6: a valid registration whose two lookups find nothing and for which no
\* collaborator throws responds 201 "Registration successful"; its save adds
\* exactly one record, carrying its username and email, and the record stays
\* in the store; the stored password is the hash of the submitted password and
\* differs from the plaintext.
C6_RegistrationSucceeds ==
    [][/\ \A r \in Reqs :
            (IsReg(r) /\ pc[r] = "save" /\ pc'[r] = "done" /\ ~ThrewIn(calls'[r]))
            => /\ store' = Append(store, HashedDoc(r))
               /\ response'[r].status = 201
               /\ response'[r].sent
               /\ response'[r].message = "Registration successful"
       /\ \A r \in Reqs :
            (/\ IsReg(r) /\ Valid(r) /\ pc'[r] = "done"
             /\ userExists'[r] = Null /\ emailExists'[r] = Null
             /\ ~ThrewIn(calls'[r]))
            => /\ calls'[r] = AllOk
               /\ response'[r].status = 201
               /\ \E i \in 1..Len(store') :
                    /\ store'[i] = HashedDoc(r)
                    /\ store'[i].password # request[r].password]_vars

C6_Witness ==
    \E r \in Reqs : /\ IsReg(r) /\ response[r].status = 201
                    /\ request[r].username = "bobby"
                    /\ request[r].password = "secret"
                    /\ store = <<HashedDoc(r)>>

\* C7: an availability check whose lookup does not throw responds 200 with
\* available=false exactly when the store holds a record matching its key at
\* the lookup, and changes neither the store nor the session; once a
\* registration has responded 201, a check for its username or its email
\* answers available=false.
C7_AvailabilityCheck ==
    [][\A r \in Reqs :
          (pc[r] = "find" /\ pc'[r] = "done" /\ ~ThrewIn(calls'[r]))
          => LET match == IF request[r].route = "usercheck"
                          THEN HasUsername(request[r].username)
                          ELSE HasEmail(request[r].email)
             IN  /\ response'[r].status = 200
                 /\ response'[r].sent
                 /\ response'[r].available = (IF match THEN "false" ELSE "true")
                 /\ store' = store
                 /\ session' = session
                 /\ \A q \in Reqs :
                      (/\ IsReg(q) /\ response[q].status = 201
                       /\ IF request[r].route = "usercheck"
                          THEN request[q].username = request[r].username
                          ELSE request[q].email = request[r].email)
                      => response'[r].available = "false"]_vars

C7_Witness ==
    \E r, q \in Reqs :
        /\ q < r /\ IsReg(q) /\ response[q].status = 201
        /\ IsCheck(r) /\ response[r].available = "false"

\* C8: when a collaborator call throws inside a handler, the request ends with
\* a sent 500 response (message "Error creating user account" for a
\* registration), the handler terminates, and the request adds no record to
\* the store and writes nothing to the session.
C8_ThrowGives500 ==
    [][\A r \in Reqs :
          (ThrewIn(calls'[r]) /\ ~ThrewIn(calls[r]))
          => /\ response'[r].status = 500
             /\ response'[r].sent
             /\ response'[r].message # ""
             /\ IsReg(r) => response'[r].message = "Error creating user account"
             /\ pc'[r] = "done"
             /\ store' = store
             /\ session' = session]_vars

C8_Witness ==
    \E r, q \in Reqs :
        /\ IsReg(r) /\ <<"save", "throw">> \in calls[r] /\ response[r].status = 500
        /\ IsCheck(q) /\ ThrewIn(calls[q]) /\ response[q].status = 500

\* C9: the username lookup sees only persisted records: completing while no
\* record holds the username, it finds no match however many requests with
\* that username are in flight, and the request goes on to its email lookup;
\* so two registrations with one username can both have called save.
C9_LookupIgnoresInFlight ==
    [][\A r \in Reqs :
          (/\ IsReg(r) /\ pc[r] = "findUser"
           /\ <<"findUser", "ok">> \in calls'[r]
           /\ ~HasUsername(request[r].username))
          => /\ userExists'[r] = Null
             /\ pc'[r] = "findEmail"]_vars

C9_Witness ==
    \E r, q \in Reqs :
        /\ r # q /\ IsReg(r) /\ IsReg(q)
        /\ request[r].username = request[q].username
        /\ ~HasUsername(request[r].username)
        /\ pc[r] = "save" /\ pc[q] = "save"
        /\ userExists[r] = Null /\ userExists[q] = Null

\* C10: the session's user is written only by a registration that ends in
\* 201, in the step in which its save completes successfully, and the value
\* written is the user object constructed for that request; every other step
\* (a 400, a 500, an availability check) leaves the session unchanged.
C10_SessionWrittenOn201 ==
    [][\A r \in Reqs :
          /\ session'[r] # session[r]
             => /\ IsReg(r) /\ pc[r] = "save"
                /\ <<"save", "ok">> \in calls'[r]
                /\ response'[r].status = 201
                /\ store' = Append(store, HashedDoc(r))
          /\ (IsReg(r) /\ pc[r] = "save" /\ response'[r].status = 201)
             => session'[r] = Some(HashedDoc(r))
          /\ (pc'[r] = "done" /\ response'[r].status # 201)
             => session'[r] = session[r]]_vars

C10_Witness ==
    \E r \in Reqs : /\ IsReg(r) /\ response[r].status = 201
                    /\ session[r] = Some(HashedDoc(r))
                    /\ session[r] = response[r].user
====
